---- MODULE Spec2Model ----
(***************************************************************************)
(* Job queue, job runner and dashboard broadcaster of the game QA agent.   *)
(*                                                                         *)
(*   JobQueue        src/src/server/queue.ts                               *)
(*   JobRunner       src/unnamed/part_007   (src/server/runner.ts)         *)
(*   DashboardServer src/unnamed/part_009   (src/server/index.ts)          *)
(*   server.ts       src/unnamed/part_011   (API handlers, main)           *)
(*                                                                         *)
(* The process is one JavaScript event loop: every action below is the     *)
(* code that runs between two suspension points (await) of a handler.      *)
(***************************************************************************)
EXTENDS Integers, Sequences, FiniteSets, TLC

VARIABLES
    jobs,            \* JobQueue.jobs: job id -> Job (ids are 1..Len(jobs), in insertion order)
    queue,           \* JobQueue.queue: ids of the jobs waiting for a slot
    runningJobIds,   \* JobQueue.runningJobIds
    maxConcurrent,   \* JobQueue.maxConcurrent
    isRunning,       \* JobRunner.isRunning
    loops,           \* number of start() loops currently sleeping in setTimeout
    activeJobCount,  \* JobRunner.activeJobCount
    pc,              \* position of runJob(job) for every job
    result,          \* what agent.run(job.url) produced for every job
    launches,        \* number of runJob(job) invocations per job
    files,           \* output directories that hold a run-metadata.json
    sseClients,      \* DashboardServer.sseClients: client id -> SSEClient
    nextClient,      \* number of SSE client ids handed out so far
    delivered,       \* per SSE client: the events enqueued on its controller
    events,          \* per job: the message types its execution unit published
    statusLog,       \* per job: the values assigned to job.status, in order
    admissions,      \* the job ids startJob was called with, in the order of the calls
    published,       \* the messages handed to broadcast: who published, type, data.jobId
    unitStats,       \* queue-updates of the execution units: sent, per job the number
                     \* its unit broadcast; last, the getStats() snapshot of the latest
    progressLeft,    \* progress events the executors may still emit
    faultsLeft,      \* failures the environment may still inject
    totalSubmitted,  \* number of jobs addJobs has created
    now,             \* wall clock, in clock ticks
    clients,         \* DashboardServer.clients: WebSocket id -> state of the socket
    wsLog,           \* per WebSocket client: what was sent, and sends that threw
    saveAttempts,    \* calls of saveMetadata: the job, and whether the record was written
    outputRoot,      \* ./output as readdirSync lists it: what every entry is
    listing,         \* body of the last /api/results response
    dashboard        \* the Dashboard object of a browser page (app.js)

vars == <<jobs, queue, runningJobIds, maxConcurrent, isRunning, loops,
          activeJobCount, pc, result, launches, files, sseClients, nextClient,
          delivered, events, statusLog, admissions, published, unitStats,
          progressLeft, faultsLeft, totalSubmitted, now, clients, wsLog,
          saveAttempts, outputRoot, listing, dashboard>>

---------------------------------------------------------------------------
\* Bounds of the model.
MaxJobs == 2
MaxClock == 2
MaxSSE == 1
MaxProgress == 1
MaxFaults == 1
MaxLoops == 2
MaxWS == 1
MaxEntries == 3

\* Clock ticks per second: the clock is finer than the second the output
\* directory name keeps.
TicksPerSecond == 2

\* Dashboard.maxReconnectAttempts (app.js)
maxReconnectAttempts == 5

Undefined == <<>>
Some(v) == <<v>>

Min(a, b) == IF a <= b THEN a ELSE b

---------------------------------------------------------------------------
\* URLs, as new URL(url) parses them.

AlphaNum == {"a", "b", "g", "i", "o", "x", "y"}

Url1 == [valid |-> TRUE, hostname |-> <<"a", ".", "i", "o">>, pathname |-> <<"/", "g">>]
Url2 == [valid |-> TRUE, hostname |-> <<"b", ".", "i", "o">>, pathname |-> <<"/", "x", ".", "y">>]
BadUrl == [valid |-> FALSE, hostname |-> <<>>, pathname |-> <<>>]

Urls == {Url1, Url2, BadUrl}

\* s.replace(/c/g, d)
ReplaceAll(s, c, d) == [i \in 1..Len(s) |-> IF s[i] = c THEN d ELSE s[i]]

\* s.replace(/^-/, '')
StripLeadingDash(s) == IF Len(s) > 0 /\ s[1] = "-" THEN Tail(s) ELSE s

\* s.replace(/[^a-z0-9-]/gi, '-')
ReplaceNonAlnum(s) ==
    [i \in 1..Len(s) |-> IF s[i] \in AlphaNum \cup {"-"} THEN s[i] ELSE "-"]

\* s.replace(/-+/g, '-')
RECURSIVE CollapseDashes(_)
CollapseDashes(s) ==
    IF Len(s) <= 1 THEN s
    ELSE IF s[1] = "-" /\ s[2] = "-" THEN CollapseDashes(Tail(s))
    ELSE <<s[1]>> \o CollapseDashes(Tail(s))

Sanitize(url) ==
    LET hostname == ReplaceAll(url.hostname, ".", "-")
        pathname == StripLeadingDash(ReplaceAll(url.pathname, "/", "-"))
    IN CollapseDashes(ReplaceNonAlnum(hostname \o pathname))

\* toISOString() cut down to YYYY-MM-DD_HHMMSS: the second of the instant.
Timestamp(t) == t \div TicksPerSecond

\* `output/${sanitized}_${timestamp}`
GenerateOutputDir(url, t) == <<"output", Sanitize(url), Timestamp(t)>>

---------------------------------------------------------------------------
\* JobQueue (queue.ts).  The operators take and return the record w of the
\* objects' fields: jobs, queue, running, max (JobQueue), sse, delivered, ws,
\* wsLog (DashboardServer), events, published (what was published), active,
\* pc, launches (JobRunner and its runJob invocations), statusLog and
\* admissions (what the queue was asked to do).

NewJob(url, t) ==
    [url |-> url, status |-> "pending", outputDir |-> GenerateOutputDir(url, t),
     createdAt |-> t, startedAt |-> Undefined, completedAt |-> Undefined,
     duration |-> Undefined, actionCount |-> Undefined,
     screenshotCount |-> Undefined, error |-> Undefined]

\* addJobs that puts the new id in front of the queue.
AddJob_PushesFront(w, url, t) ==
    [w EXCEPT !.jobs = Append(@, NewJob(url, t)),
              !.queue = <<Len(w.jobs) + 1>> \o @,
              !.events = Append(@, <<>>),
              !.statusLog = Append(@, <<"pending">>),
              !.unitStats.sent = Append(@, 0),
              !.pc = Append(@, "idle"),
              !.launches = Append(@, 0)]

\* One iteration of the loop of addJobs: the id is the next free one.
AddJob(w, url, t) ==
    [w EXCEPT !.jobs = Append(@, NewJob(url, t)),
              !.queue = Append(@, Len(w.jobs) + 1),
              !.events = Append(@, <<>>),
              !.statusLog = Append(@, <<"pending">>),
              !.unitStats.sent = Append(@, 0),
              !.pc = Append(@, "idle"),
              !.launches = Append(@, 0)]

\* this.queue.filter((id) => id !== jobId)
RemoveFromQueue(q, jobId) == SelectSeq(q, LAMBDA id : id # jobId)

\* getNextJobs without the slot computation: the whole queue.
GetNextJobs_IgnoresLimit(w) ==
    SelectSeq(w.queue, LAMBDA id : id \in DOMAIN w.jobs)

\* getNextJobs that takes the jobs from the end of the queue.
GetNextJobs_TakesLast(w) ==
    LET availableSlots == w.max - Cardinality(w.running)
    IN IF availableSlots <= 0 \/ Len(w.queue) = 0 THEN <<>>
       ELSE SelectSeq(SubSeq(w.queue,
                             Len(w.queue) - Min(availableSlots, Len(w.queue)) + 1,
                             Len(w.queue)),
                      LAMBDA id : id \in DOMAIN w.jobs)

GetNextJobs(w) ==
    LET availableSlots == w.max - Cardinality(w.running)
    IN IF availableSlots <= 0 \/ Len(w.queue) = 0 THEN <<>>
       ELSE SelectSeq(SubSeq(w.queue, 1, Min(availableSlots, Len(w.queue))),
                      LAMBDA id : id \in DOMAIN w.jobs)

\* setMaxConcurrent that also takes the slots of the running jobs over the
\* new limit away.
SetMaxConcurrent_Evicts(w, max) ==
    [w EXCEPT !.max = max,
              !.running = {id \in @ : Cardinality({other \in @ : other <= id}) <= max}]

\* setMaxConcurrent: an assignment to the limit (and a log line).
SetMaxConcurrent(w, max) == [w EXCEPT !.max = max]

CanStartMoreJobs(w) == Cardinality(w.running) < w.max /\ Len(w.queue) > 0

\* startJob that leaves the job in the queue.
StartJob_StaysQueued(w, jobId, t) ==
    IF jobId \notin DOMAIN w.jobs THEN w
    ELSE [w EXCEPT !.jobs[jobId].status = "running",
                   !.statusLog[jobId] = Append(@, "running"),
                   !.admissions = Append(@, jobId),
                   !.jobs[jobId].startedAt = Some(t),
                   !.running = @ \cup {jobId}]

StartJob(w, jobId, t) ==
    IF jobId \notin DOMAIN w.jobs THEN w
    ELSE [w EXCEPT !.jobs[jobId].status = "running",
                   !.statusLog[jobId] = Append(@, "running"),
                   !.admissions = Append(@, jobId),
                   !.jobs[jobId].startedAt = Some(t),
                   !.running = @ \cup {jobId},
                   !.queue = RemoveFromQueue(@, jobId)]

\* completeJob that does not release the slot.
CompleteJob_KeepsSlot(w, jobId, metadata, t) ==
    IF jobId \notin DOMAIN w.jobs THEN w
    ELSE [w EXCEPT !.jobs[jobId].status = "completed",
                   !.statusLog[jobId] = Append(@, "completed"),
                   !.jobs[jobId].completedAt = Some(t),
                   !.jobs[jobId].duration = Some(metadata.duration),
                   !.jobs[jobId].actionCount = Some(metadata.actionCount),
                   !.jobs[jobId].screenshotCount = Some(metadata.screenshotCount)]

CompleteJob(w, jobId, metadata, t) ==
    IF jobId \notin DOMAIN w.jobs THEN w
    ELSE [w EXCEPT !.jobs[jobId].status = "completed",
                   !.statusLog[jobId] = Append(@, "completed"),
                   !.jobs[jobId].completedAt = Some(t),
                   !.jobs[jobId].duration = Some(metadata.duration),
                   !.jobs[jobId].actionCount = Some(metadata.actionCount),
                   !.jobs[jobId].screenshotCount = Some(metadata.screenshotCount),
                   !.running = @ \ {jobId}]

\* failJob that leaves the id in runningJobIds.
FailJob_KeepsSlot(w, jobId, error, t) ==
    IF jobId \notin DOMAIN w.jobs THEN w
    ELSE [w EXCEPT !.jobs[jobId].status = "failed",
                   !.statusLog[jobId] = Append(@, "failed"),
                   !.jobs[jobId].completedAt = Some(t),
                   !.jobs[jobId].error = Some(error),
                   !.queue = RemoveFromQueue(@, jobId)]

\* failJob that does not record the error.
FailJob_NoError(w, jobId, error, t) ==
    IF jobId \notin DOMAIN w.jobs THEN w
    ELSE [w EXCEPT !.jobs[jobId].status = "failed",
                   !.statusLog[jobId] = Append(@, "failed"),
                   !.jobs[jobId].completedAt = Some(t),
                   !.running = @ \ {jobId},
                   !.queue = RemoveFromQueue(@, jobId)]

FailJob(w, jobId, error, t) ==
    IF jobId \notin DOMAIN w.jobs THEN w
    ELSE [w EXCEPT !.jobs[jobId].status = "failed",
                   !.statusLog[jobId] = Append(@, "failed"),
                   !.jobs[jobId].completedAt = Some(t),
                   !.jobs[jobId].error = Some(error),
                   !.running = @ \ {jobId},
                   !.queue = RemoveFromQueue(@, jobId)]

CountStatus(js, st) == Cardinality({id \in DOMAIN js : js[id].status = st})

\* getStats that counts a failed job as completed too.
GetStats_DoubleCount(w) ==
    [pending |-> CountStatus(w.jobs, "pending"),
     running |-> CountStatus(w.jobs, "running"),
     completed |-> CountStatus(w.jobs, "completed") + CountStatus(w.jobs, "failed"),
     failed |-> CountStatus(w.jobs, "failed")]

GetStats(w) ==
    [pending |-> CountStatus(w.jobs, "pending"),
     running |-> CountStatus(w.jobs, "running"),
     completed |-> CountStatus(w.jobs, "completed"),
     failed |-> CountStatus(w.jobs, "failed")]

\* b.completedAt?.getTime() || 0
CompletedTime(job) == IF job.completedAt = Undefined THEN 0 ELSE job.completedAt[1]

\* id put into the sorted array ids, behind the jobs that completed as late.
RECURSIVE InsertByCompletion(_, _, _)
InsertByCompletion(js, ids, id) ==
    IF ids = <<>> THEN <<id>>
    ELSE IF CompletedTime(js[Head(ids)]) >= CompletedTime(js[id])
         THEN <<Head(ids)>> \o InsertByCompletion(js, Tail(ids), id)
         ELSE <<id>> \o ids

\* .sort((a, b) => b.completedAt - a.completedAt): the sort is stable.
RECURSIVE SortByCompletion(_, _)
SortByCompletion(js, ids) ==
    IF ids = <<>> THEN <<>>
    ELSE InsertByCompletion(js, SortByCompletion(js, SubSeq(ids, 1, Len(ids) - 1)),
                            ids[Len(ids)])

\* getHistory that leaves the jobs in the order of the map.
GetHistory_Unsorted(w) ==
    SelectSeq([i \in 1..Len(w.jobs) |-> i],
              LAMBDA id : w.jobs[id].status \in {"completed", "failed"})

\* getHistory: the jobs of the map (in insertion order) that are completed
\* or failed, sorted.  The jobs are given by their ids.
GetHistory(w) ==
    SortByCompletion(w.jobs,
        SelectSeq([i \in 1..Len(w.jobs) |-> i],
                  LAMBDA id : w.jobs[id].status \in {"completed", "failed"}))

---------------------------------------------------------------------------
\* DashboardServer.broadcast (part_009).  A message is [type, data] and
\* data.jobId is Undefined for the process-wide queue-update.

Message(type, jobId) == [type |-> type, data |-> [jobId |-> jobId]]

\* The SSE loop without its filter.
SkipsMessage_Never(sseClient, message) == FALSE

\* The filter of the SSE loop: true when the client is skipped.
SkipsMessage(sseClient, message) ==
    sseClient.jobId # Undefined /\ message.data.jobId # sseClient.jobId

\* controller.enqueue throws on a controller that is no longer open.
SendThrows(sseClient) == sseClient.controller # "open"

\* What a WebSocket client was sent: the events of every job in the order of
\* the sends, and the number of queue-update messages.
WsSent(log, event) ==
    IF event.jobId = Undefined
    THEN [log EXCEPT !.stats = @ + 1]
    ELSE [log EXCEPT !.sent[event.jobId[1]] = Append(@, event.type)]

\* client.send throws on a socket that is no longer usable.
WsSendThrows(socket) == socket # "open"

\* broadcast in which a send that throws ends the call: the subscribers after
\* the WebSocket clients get nothing.
Broadcast_StopsAtFailure(w, message) ==
    LET event == [type |-> message.type, jobId |-> message.data.jobId]
        thrown == \E c \in DOMAIN w.ws : WsSendThrows(w.ws[c])
        dead == {c \in DOMAIN w.sse :
                    ~thrown /\ ~SkipsMessage(w.sse[c], message) /\ SendThrows(w.sse[c])}
        sent == {c \in DOMAIN w.sse :
                    ~thrown /\ ~SkipsMessage(w.sse[c], message) /\ ~SendThrows(w.sse[c])}
    IN [w EXCEPT
          !.wsLog = [c \in DOMAIN w.ws |->
                        IF WsSendThrows(w.ws[c])
                        THEN [w.wsLog[c] EXCEPT !.failures = @ + 1]
                        ELSE WsSent(w.wsLog[c], event)],
          !.sse = [c \in DOMAIN w.sse \ dead |-> w.sse[c]],
          !.delivered = [c \in DOMAIN w.sse \ dead |->
                            IF c \in sent THEN Append(w.delivered[c], event)
                            ELSE w.delivered[c]]]

\* broadcast that puts the event in front of what a subscriber already got.
Broadcast_Prepends(w, message) ==
    LET event == [type |-> message.type, jobId |-> message.data.jobId]
        dead == {c \in DOMAIN w.sse :
                    ~SkipsMessage(w.sse[c], message) /\ SendThrows(w.sse[c])}
        sent == {c \in DOMAIN w.sse :
                    ~SkipsMessage(w.sse[c], message) /\ ~SendThrows(w.sse[c])}
    IN [w EXCEPT
          !.wsLog = [c \in DOMAIN w.ws |->
                        IF WsSendThrows(w.ws[c])
                        THEN [w.wsLog[c] EXCEPT !.failures = @ + 1]
                        ELSE IF event.jobId = Undefined
                        THEN [w.wsLog[c] EXCEPT !.stats = @ + 1]
                        ELSE [w.wsLog[c] EXCEPT !.sent[event.jobId[1]] =
                                                <<event.type>> \o @]],
          !.sse = [c \in DOMAIN w.sse \ dead |-> w.sse[c]],
          !.delivered = [c \in DOMAIN w.sse \ dead |->
                            IF c \in sent THEN <<event>> \o w.delivered[c]
                            ELSE w.delivered[c]]]

\* The WebSocket loop sends the payload to every client and only logs a send
\* that throws; the SSE loop enqueues the event on every client the filter
\* lets through and deletes a client whose enqueue throws.
Broadcast(w, message) ==
    LET event == [type |-> message.type, jobId |-> message.data.jobId]
        dead == {c \in DOMAIN w.sse :
                    ~SkipsMessage(w.sse[c], message) /\ SendThrows(w.sse[c])}
        sent == {c \in DOMAIN w.sse :
                    ~SkipsMessage(w.sse[c], message) /\ ~SendThrows(w.sse[c])}
    IN [w EXCEPT
          !.wsLog = [c \in DOMAIN w.ws |->
                        IF WsSendThrows(w.ws[c])
                        THEN [w.wsLog[c] EXCEPT !.failures = @ + 1]
                        ELSE WsSent(w.wsLog[c], event)],
          !.sse = [c \in DOMAIN w.sse \ dead |-> w.sse[c]],
          !.delivered = [c \in DOMAIN w.sse \ dead |->
                            IF c \in sent THEN Append(w.delivered[c], event)
                            ELSE w.delivered[c]]]

\* A publish by the execution unit of job id: the message is recorded in the
\* job's publication history and broadcast.
Publish(w, id, type) ==
    Broadcast([w EXCEPT !.events[id] = Append(@, type),
                        !.published = @ \cup {[job |-> Some(id), type |-> type,
                                               jobId |-> Some(id)]}],
              Message(type, Some(id)))

\* The payload an executor emits with a log, screenshot or action event, as
\* far as the relay is concerned: its own jobId field, if it has one.  The
\* payloads of BrowserAgent (part_002) have none.
AgentPayload == [jobId |-> Undefined]

Payloads == {AgentPayload} \cup {[jobId |-> Some(j)] : j \in 1..MaxJobs}

\* { jobId: job.id, ...data }.jobId: a property of data replaces the one
\* written before the spread.
Tagged(id, data) == IF data.jobId # Undefined THEN data.jobId ELSE Some(id)

\* The listener runJob registers on the agent: the event is broadcast with
\* the data { jobId: job.id, ...data }.
Forward(w, id, type, data) ==
    Broadcast([w EXCEPT !.events[id] = Append(@, type),
                        !.published = @ \cup {[job |-> Some(id), type |-> type,
                                               jobId |-> Tagged(id, data)]}],
              Message(type, Tagged(id, data)))

\* The queue-update of an execution unit: const stats = this.queue.getStats()
\* and the broadcast of it.
PublishStatsOf(w, id) ==
    Broadcast([w EXCEPT !.unitStats = [sent |-> [@.sent EXCEPT ![id] = @ + 1],
                                       last |-> Some(GetStats(w))],
                        !.published = @ \cup {[job |-> Undefined,
                                               type |-> "queue-update",
                                               jobId |-> Undefined]}],
              Message("queue-update", Undefined))

PublishStats(w) ==
    Broadcast([w EXCEPT !.published = @ \cup {[job |-> Undefined,
                                               type |-> "queue-update",
                                               jobId |-> Undefined]}],
              Message("queue-update", Undefined))

---------------------------------------------------------------------------
\* JobRunner (part_007).

\* What agent.run resolves with: the QAResult of a passed or a failed run
\* (BrowserAgent.run returns a 'fail' result after an internal error), and
\* whether the fields taken from it can be serialised by JSON.stringify.
PassResult == [status |-> "pass", serialisable |-> TRUE]
FailResult == [status |-> "fail", serialisable |-> TRUE]
CyclicResult == [status |-> "pass", serialisable |-> FALSE]

Results == {PassResult, FailResult, CyclicResult}

\* { duration, actionCount, screenshotCount } handed to completeJob.
ResultMetadata(r) ==
    [duration |-> 1,
     actionCount |-> IF r.status = "pass" THEN 1 ELSE 0,
     screenshotCount |-> IF r.status = "pass" THEN 2 ELSE 0]

\* Values a rejected agent.run is rejected with: an Error, and a value that
\* is not an Error.
ThrownValues ==
    {[isError |-> TRUE, message |-> "Failed to initialize browser session"],
     [isError |-> FALSE, text |-> "timeout"]}

MkdirError == [isError |-> TRUE, message |-> "EACCES: permission denied, mkdir"]

StringifyError == [isError |-> TRUE, message |-> "Converting circular structure to JSON"]

\* error instanceof Error ? error.message : String(error)
ErrorMsg(error) == IF error.isError THEN error.message ELSE error.text

ProgressTypes == {"log", "screenshot", "action"}

\* runJob up to its first await: activeJobCount++, startJob, job-started.
RunJobStart(w, id, t) ==
    Publish(StartJob([w EXCEPT !.active = @ + 1,
                               !.launches[id] = @ + 1,
                               !.pc[id] = "mkdir"], id, t),
            id, "job-started")

\* The loop over jobsToStart taken from its last job to its first.
RECURSIVE RunJobs_Backwards(_, _, _)
RunJobs_Backwards(w, jobsToStart, t) ==
    IF jobsToStart = <<>> THEN w
    ELSE RunJobs_Backwards(RunJobStart(w, jobsToStart[Len(jobsToStart)], t),
                           SubSeq(jobsToStart, 1, Len(jobsToStart) - 1), t)

\* for (const job of jobsToStart) this.runJob(job)
RECURSIVE RunJobs(_, _, _)
RunJobs(w, jobsToStart, t) ==
    IF jobsToStart = <<>> THEN w
    ELSE RunJobs(RunJobStart(w, Head(jobsToStart), t), Tail(jobsToStart), t)

\* An iteration that admits nothing while a runJob is in flight, as a loop
\* that awaited its jobs would.
Poll_WaitsForJobs(w, t) ==
    IF w.active = 0 /\ CanStartMoreJobs(w) THEN RunJobs(w, GetNextJobs(w), t) ELSE w

\* An iteration that starts one job at most.
Poll_OneAtATime(w, t) ==
    IF CanStartMoreJobs(w) THEN RunJobs(w, SubSeq(GetNextJobs(w), 1, 1), t) ELSE w

\* One iteration of the while loop of start().
Poll(w, t) ==
    IF CanStartMoreJobs(w) THEN RunJobs(w, GetNextJobs(w), t) ELSE w

\* A catch block that fails every running job along with the one that threw.
CatchBlock_FailsSiblings(w, id, error, t) ==
    PublishStats(
        Publish([w EXCEPT !.active = @ - 1,
                          !.pc[id] = "done",
                          !.jobs = [j \in DOMAIN w.jobs |->
                                       IF j \in w.running \cup {id}
                                       THEN [w.jobs[j] EXCEPT
                                                !.status = "failed",
                                                !.completedAt = Some(t),
                                                !.error = Some(ErrorMsg(error))]
                                       ELSE w.jobs[j]],
                          !.statusLog = [j \in DOMAIN w.jobs |->
                                            IF j \in w.running \cup {id}
                                            THEN Append(w.statusLog[j], "failed")
                                            ELSE w.statusLog[j]],
                          !.running = {}],
                id, "job-failed"))

\* The catch block of runJob.
CatchBlock(w, id, error, t) ==
    PublishStatsOf(
        Publish(FailJob([w EXCEPT !.active = @ - 1, !.pc[id] = "done"],
                        id, ErrorMsg(error), t),
                id, "job-failed"), id)

\* A termination sequence without the catch block that broadcasts before it
\* calls completeJob: a broadcast that throws ends the unit there.
CompleteAndPublish_Uncaught(w, id, r, t) ==
    IF ~r.serialisable
    THEN [w EXCEPT !.pc[id] = "done"]
    ELSE [PublishStatsOf(Publish(CompleteJob(w, id, ResultMetadata(r), t),
                                 id, "job-completed"), id)
             EXCEPT !.active = @ - 1, !.pc[id] = "done"]

\* A termination sequence that takes the snapshot of the queue-update before
\* completeJob has run.
CompleteAndPublish_StaleStats(w, id, r, t) ==
    LET stale == [w EXCEPT !.unitStats = [sent |-> [@.sent EXCEPT ![id] = @ + 1],
                                          last |-> Some(GetStats(w))]]
        completed == CompleteJob(stale, id, ResultMetadata(r), t)
    IN IF ~r.serialisable
       THEN CatchBlock(completed, id, StringifyError, t)
       ELSE [PublishStats(Publish(completed, id, "job-completed"))
                EXCEPT !.active = @ - 1, !.pc[id] = "done"]

\* completeJob and what follows it inside the try block.  JSON.stringify of
\* the job-completed message is outside the try/catch of broadcast: when it
\* throws, control passes to the catch block of runJob.
CompleteAndPublish(w, id, r, t) ==
    LET completed == CompleteJob(w, id, ResultMetadata(r), t)
    IN IF ~r.serialisable
       THEN CatchBlock(completed, id, StringifyError, t)
       ELSE [PublishStatsOf(Publish(completed, id, "job-completed"), id)
                EXCEPT !.active = @ - 1, !.pc[id] = "done"]

---------------------------------------------------------------------------
\* The dashboard page (public/app.js).  dashboard holds the fields of the
\* Dashboard object: ws is the state of this.ws, reconnectTimer whether the
\* setTimeout of attemptReconnect is pending, runDisabled is
\* runButton.disabled, and connects counts the calls of connect() since the
\* last successful open.

\* new Dashboard(): the counter is 0 and connect() has created the socket.
\* The run button is as the page declares it: enabled.
NewDashboard ==
    [ws |-> "connecting", reconnectAttempts |-> 0, reconnectTimer |-> FALSE,
     runDisabled |-> FALSE, connects |-> 1]

\* attemptReconnect without the test of the counter.
AttemptReconnect_Unbounded(d) ==
    [d EXCEPT !.reconnectAttempts = @ + 1, !.reconnectTimer = TRUE]

\* attemptReconnect
AttemptReconnect(d) ==
    IF d.reconnectAttempts < maxReconnectAttempts
    THEN [d EXCEPT !.reconnectAttempts = @ + 1, !.reconnectTimer = TRUE]
    ELSE d

---------------------------------------------------------------------------
\* The state as one record, and back.

World ==
    [jobs |-> jobs, queue |-> queue, running |-> runningJobIds,
     max |-> maxConcurrent, sse |-> sseClients, delivered |-> delivered,
     events |-> events, statusLog |-> statusLog, admissions |-> admissions,
     published |-> published, unitStats |-> unitStats, active |-> activeJobCount,
     pc |-> pc, launches |-> launches, ws |-> clients, wsLog |-> wsLog]

Becomes(w) ==
    /\ jobs' = w.jobs
    /\ queue' = w.queue
    /\ runningJobIds' = w.running
    /\ maxConcurrent' = w.max
    /\ sseClients' = w.sse
    /\ delivered' = w.delivered
    /\ events' = w.events
    /\ statusLog' = w.statusLog
    /\ admissions' = w.admissions
    /\ published' = w.published
    /\ unitStats' = w.unitStats
    /\ activeJobCount' = w.active
    /\ pc' = w.pc
    /\ launches' = w.launches
    /\ clients' = w.ws
    /\ wsLog' = w.wsLog

JobIds == DOMAIN jobs

\* main() of server.ts: the queue is created and configured, the server is
\* started and runner.start() has run its first, empty iteration.
InitObjects ==
    /\ jobs = <<>>
    /\ queue = <<>>
    /\ runningJobIds = {}
    /\ maxConcurrent \in 1..MaxJobs
    /\ isRunning = TRUE
    /\ loops = 1
    /\ activeJobCount = 0
    /\ pc = <<>>
    /\ result = <<>>
    /\ launches = <<>>
    /\ files = {}
    /\ sseClients = <<>>
    /\ nextClient = 1
    /\ delivered = <<>>
    /\ events = <<>>
    /\ statusLog = <<>>
    /\ admissions = <<>>
    /\ published = {}
    /\ unitStats = [sent |-> <<>>, last |-> Undefined]
    /\ progressLeft = MaxProgress
    /\ totalSubmitted = 0
    /\ now = 0
    /\ clients = <<>>
    /\ wsLog = <<>>
    /\ saveAttempts = {}
    /\ listing = Undefined
    /\ dashboard = NewDashboard

Init == InitObjects /\ faultsLeft = MaxFaults /\ outputRoot = <<>>

\* The same with an environment that injects no failure.
InitNoFaults == InitObjects /\ faultsLeft = 0 /\ outputRoot = <<>>

\* The non-empty arrays of urls a request body can carry.
Batches == UNION {[1..n -> Urls] : n \in 1..MaxJobs}

\* addJobs: generateOutputDir throws on a url that new URL rejects, and the
\* jobs of the urls before it stay in the queue.
RECURSIVE AddJobs(_, _, _)
AddJobs(w, urls, t) ==
    IF urls = <<>> \/ ~Head(urls).valid THEN w
    ELSE AddJobs(AddJob(w, Head(urls), t), Tail(urls), t)

AddJobsThrows(urls) == \E i \in DOMAIN urls : ~urls[i].valid

\* POST /api/run with a non-empty array of urls.
Submit(urls) ==
    /\ Len(jobs) + Len(urls) <= MaxJobs
    /\ LET added == AddJobs(World, urls, now)
       IN /\ Becomes(IF AddJobsThrows(urls) THEN added ELSE PublishStats(added))
          /\ result' = result \o [i \in 1..(Len(added.jobs) - Len(jobs)) |-> Undefined]
          /\ totalSubmitted' = totalSubmitted + (Len(added.jobs) - Len(jobs))
    /\ UNCHANGED <<isRunning, loops, files, nextClient, progressLeft, faultsLeft, now,
                   saveAttempts, outputRoot, listing, dashboard>>

\* What the body of a POST /api/run carries as urls: an array of urls, empty
\* or not, or something that is not an array (or nothing at all).
Bodies ==
    {[isArray |-> FALSE, items |-> <<>>]}
        \cup {[isArray |-> TRUE, items |-> urls] : urls \in Batches \cup {<<>>}}

\* The handler of /api/run answers with status 400.
RunRejects(body) ==
    \/ ~body.isArray
    \/ Len(body.items) = 0
    \/ AddJobsThrows(body.items)

\* POST /api/run: the handler returns 'No URLs provided' before it touches
\* the queue, or goes on to addJobs.
Run(body) ==
    IF ~body.isArray \/ Len(body.items) = 0
    THEN UNCHANGED vars
    ELSE Submit(body.items)

\* A wake-up that polls whether or not the runner has been stopped.
Tick_IgnoresStop ==
    /\ loops > 0
    /\ Becomes(Poll(World, now))
    /\ UNCHANGED <<isRunning, loops, result, files, nextClient, progressLeft,
                   faultsLeft, totalSubmitted, now,
                   saveAttempts, outputRoot, listing, dashboard>>

\* A loop of start() wakes up from its setTimeout.
Tick ==
    /\ loops > 0
    /\ IF isRunning
       THEN /\ Becomes(Poll(World, now))
            /\ UNCHANGED loops
       ELSE /\ loops' = loops - 1
            /\ Becomes(World)
    /\ UNCHANGED <<isRunning, result, files, nextClient, progressLeft,
                   faultsLeft, totalSubmitted, now,
                   saveAttempts, outputRoot, listing, dashboard>>

\* runner.start() while the runner is stopped: a new loop runs its first
\* iteration at once.  (start() on a running runner only logs a warning.)
Start ==
    /\ ~isRunning
    /\ loops < MaxLoops
    /\ isRunning' = TRUE
    /\ loops' = loops + 1
    /\ Becomes(Poll(World, now))
    /\ UNCHANGED <<result, files, nextClient, progressLeft, faultsLeft,
                   totalSubmitted, now,
                   saveAttempts, outputRoot, listing, dashboard>>

\* runner.stop()
Stop ==
    /\ isRunning
    /\ isRunning' = FALSE
    /\ UNCHANGED <<jobs, queue, runningJobIds, maxConcurrent, loops,
                   activeJobCount, pc, result, launches, files, sseClients,
                   nextClient, delivered, events, statusLog,
                   admissions, published, unitStats,
                   progressLeft, faultsLeft,
                   totalSubmitted, now,
                   clients, wsLog, saveAttempts, outputRoot, listing, dashboard>>

\* runJob resumes after ensureOutputDir: the agent is created and agent.run
\* emits its first log event before it suspends.
AgentStarts(id) ==
    /\ id \in JobIds /\ pc[id] = "mkdir"
    /\ Becomes(Forward([World EXCEPT !.pc[id] = "agent"], id, "log", AgentPayload))
    /\ UNCHANGED <<isRunning, loops, result, files, nextClient, progressLeft,
                   faultsLeft, totalSubmitted, now,
                   saveAttempts, outputRoot, listing, dashboard>>

\* ensureOutputDir threw (mkdirSync failed).
MkdirFails(id) ==
    /\ id \in JobIds /\ pc[id] = "mkdir"
    /\ faultsLeft > 0
    /\ faultsLeft' = faultsLeft - 1
    /\ Becomes(CatchBlock(World, id, MkdirError, now))
    /\ UNCHANGED <<isRunning, loops, result, files, nextClient, progressLeft,
                   totalSubmitted, now,
                   saveAttempts, outputRoot, listing, dashboard>>

\* An executor emits a log, screenshot or action event with the payload data.
Emit(id, type, data) ==
    /\ id \in JobIds /\ pc[id] = "agent"
    /\ progressLeft > 0
    /\ progressLeft' = progressLeft - 1
    /\ Becomes(Forward(World, id, type, data))
    /\ UNCHANGED <<isRunning, loops, result, files, nextClient, faultsLeft,
                   totalSubmitted, now,
                   saveAttempts, outputRoot, listing, dashboard>>

\* The agent emits a log, screenshot or action event.
Progress(id, type) ==
    /\ id \in JobIds /\ pc[id] = "agent"
    /\ progressLeft > 0
    /\ progressLeft' = progressLeft - 1
    /\ Becomes(Forward(World, id, type, AgentPayload))
    /\ UNCHANGED <<isRunning, loops, result, files, nextClient, faultsLeft,
                   totalSubmitted, now,
                   saveAttempts, outputRoot, listing, dashboard>>

\* agent.run resolves with r; saveMetadata runs up to its end.  The write
\* fails when the metadata cannot be serialised or the file system refuses.
AgentReturns(id, r, fsOk) ==
    /\ id \in JobIds /\ pc[id] = "agent"
    /\ IF r.serialisable /\ fsOk
       THEN UNCHANGED faultsLeft
       ELSE faultsLeft > 0 /\ faultsLeft' = faultsLeft - 1
    /\ result' = [result EXCEPT ![id] = Some(r)]
    /\ saveAttempts' = saveAttempts \cup
                          {[job |-> id, written |-> r.serialisable /\ fsOk]}
    /\ files' = IF r.serialisable /\ fsOk
                THEN files \cup {jobs[id].outputDir} ELSE files
    /\ Becomes([World EXCEPT !.pc[id] = "saved"])
    /\ UNCHANGED <<isRunning, loops, nextClient, progressLeft,
                   totalSubmitted, now,
                   outputRoot, listing, dashboard>>

\* agent.run rejects.
AgentThrows(id, error) ==
    /\ id \in JobIds /\ pc[id] = "agent"
    /\ faultsLeft > 0
    /\ faultsLeft' = faultsLeft - 1
    /\ Becomes(CatchBlock(World, id, error, now))
    /\ UNCHANGED <<isRunning, loops, result, files, nextClient, progressLeft,
                   totalSubmitted, now,
                   saveAttempts, outputRoot, listing, dashboard>>

\* runJob resumes after saveMetadata.
Finish(id) ==
    /\ id \in JobIds /\ pc[id] = "saved"
    /\ Becomes(CompleteAndPublish(World, id, result[id][1], now))
    /\ UNCHANGED <<isRunning, loops, result, files, nextClient, progressLeft,
                   faultsLeft, totalSubmitted, now,
                   saveAttempts, outputRoot, listing, dashboard>>

\* createSSEStream that registers the client and sends no 'connected' event.
Connect_NoAck(jobId) ==
    /\ jobId \in JobIds
    /\ nextClient <= MaxSSE
    /\ sseClients' = [c \in DOMAIN sseClients \cup {nextClient} |->
                        IF c = nextClient
                        THEN [id |-> nextClient, controller |-> "open",
                              jobId |-> Some(jobId)]
                        ELSE sseClients[c]]
    /\ delivered' = [c \in DOMAIN sseClients \cup {nextClient} |->
                        IF c = nextClient THEN <<>> ELSE delivered[c]]
    /\ nextClient' = nextClient + 1
    /\ UNCHANGED <<jobs, queue, runningJobIds, maxConcurrent, isRunning, loops,
                   activeJobCount, pc, result, launches, files, events, statusLog,
                   admissions, published, unitStats,
                   progressLeft, faultsLeft, totalSubmitted, now, clients, wsLog,
                   saveAttempts, outputRoot, listing, dashboard>>

\* GET /api/stream/:jobId for an existing job: createSSEStream(jobId).
Connect(jobId) ==
    /\ jobId \in JobIds
    /\ nextClient <= MaxSSE
    /\ sseClients' = [c \in DOMAIN sseClients \cup {nextClient} |->
                        IF c = nextClient
                        THEN [id |-> nextClient, controller |-> "open",
                              jobId |-> Some(jobId)]
                        ELSE sseClients[c]]
    /\ delivered' = [c \in DOMAIN sseClients \cup {nextClient} |->
                        IF c = nextClient
                        THEN <<[type |-> "connected", jobId |-> Some(jobId)]>>
                        ELSE delivered[c]]
    /\ nextClient' = nextClient + 1
    /\ UNCHANGED <<jobs, queue, runningJobIds, maxConcurrent, isRunning, loops,
                   activeJobCount, pc, result, launches, files, events, statusLog,
                   admissions, published, unitStats,
                   progressLeft, faultsLeft, totalSubmitted, now,
                   clients, wsLog, saveAttempts, outputRoot, listing, dashboard>>

\* The client goes away: the cancel callback of the stream.
Disconnect(c) ==
    /\ c \in DOMAIN sseClients
    /\ sseClients' = [d \in DOMAIN sseClients \ {c} |-> sseClients[d]]
    /\ delivered' = [d \in DOMAIN sseClients \ {c} |-> delivered[d]]
    /\ UNCHANGED <<jobs, queue, runningJobIds, maxConcurrent, isRunning, loops,
                   activeJobCount, pc, result, launches, files, nextClient,
                   events, statusLog, admissions, published, unitStats,
                   progressLeft, faultsLeft,
                   totalSubmitted,
                   now,
                   clients, wsLog, saveAttempts, outputRoot, listing, dashboard>>

\* The stream of a registered client stops accepting writes.
SinkCloses(c) ==
    /\ c \in DOMAIN sseClients
    /\ sseClients[c].controller = "open"
    /\ sseClients' = [sseClients EXCEPT ![c].controller = "closed"]
    /\ UNCHANGED <<jobs, queue, runningJobIds, maxConcurrent, isRunning, loops,
                   activeJobCount, pc, result, launches, files, nextClient,
                   delivered, events, statusLog, admissions, published, unitStats,
                   progressLeft, faultsLeft,
                   totalSubmitted, now,
                   clients, wsLog, saveAttempts, outputRoot, listing, dashboard>>

\* websocket.open: a dashboard connects.
WsOpen(c) ==
    /\ c \notin DOMAIN clients
    /\ clients' = [d \in DOMAIN clients \cup {c} |->
                      IF d = c THEN "open" ELSE clients[d]]
    /\ wsLog' = [d \in DOMAIN clients \cup {c} |->
                    IF d = c
                    THEN [sent |-> [id \in 1..MaxJobs |-> <<>>], stats |-> 0,
                          failures |-> 0]
                    ELSE wsLog[d]]
    /\ UNCHANGED <<jobs, queue, runningJobIds, maxConcurrent, isRunning, loops,
                   activeJobCount, pc, result, launches, files, sseClients,
                   nextClient, delivered, events, statusLog,
                   admissions, published, unitStats,
                   progressLeft, faultsLeft, totalSubmitted, now, saveAttempts, outputRoot,
                   listing, dashboard>>

\* The socket of a registered client stops accepting sends.
WsBreaks(c) ==
    /\ c \in DOMAIN clients
    /\ clients[c] = "open"
    /\ clients' = [clients EXCEPT ![c] = "broken"]
    /\ UNCHANGED <<jobs, queue, runningJobIds, maxConcurrent, isRunning, loops,
                   activeJobCount, pc, result, launches, files, sseClients,
                   nextClient, delivered, events, statusLog,
                   admissions, published, unitStats,
                   progressLeft, faultsLeft, totalSubmitted, now, wsLog, saveAttempts,
                   outputRoot, listing, dashboard>>

\* websocket.close
WsClose(c) ==
    /\ c \in DOMAIN clients
    /\ clients' = [d \in DOMAIN clients \ {c} |-> clients[d]]
    /\ wsLog' = [d \in DOMAIN clients \ {c} |-> wsLog[d]]
    /\ UNCHANGED <<jobs, queue, runningJobIds, maxConcurrent, isRunning, loops,
                   activeJobCount, pc, result, launches, files, sseClients,
                   nextClient, delivered, events, statusLog,
                   admissions, published, unitStats,
                   progressLeft, faultsLeft, totalSubmitted, now, saveAttempts, outputRoot,
                   listing, dashboard>>

\* What an entry of ./output can be: a plain file, a directory without
\* run-metadata.json, a directory whose run-metadata.json is not JSON, or a
\* directory with the record of a run started at startedAt.
Entries ==
    {[kind |-> k, startedAt |-> 0] : k \in {"file", "empty", "malformed"}}
        \cup {[kind |-> "valid", startedAt |-> t] : t \in 1..2}

Roots == UNION {[1..n -> Entries] : n \in 0..MaxEntries}

\* The loop of the handler over the entries from position i on: a record is
\* pushed for every directory that holds a run-metadata.json.
RECURSIVE ReadRuns(_, _)
ReadRuns(root, i) ==
    IF i > Len(root) THEN <<>>
    ELSE IF root[i].kind = "valid"
         THEN <<[folder |-> i, startedAt |-> root[i].startedAt]>> \o ReadRuns(root, i + 1)
         ELSE ReadRuns(root, i + 1)

\* JSON.parse throws on a record that is not JSON.
ParseThrows(root) == \E i \in DOMAIN root : root[i].kind = "malformed"

\* run put into the sorted array runs, behind the runs that are as recent.
RECURSIVE InsertRun(_, _)
InsertRun(runs, run) ==
    IF runs = <<>> THEN <<run>>
    ELSE IF Head(runs).startedAt >= run.startedAt
         THEN <<Head(runs)>> \o InsertRun(Tail(runs), run)
         ELSE <<run>> \o runs

\* runs.sort(...): most recent first.
RECURSIVE SortRuns(_)
SortRuns(runs) ==
    IF runs = <<>> THEN <<>>
    ELSE InsertRun(SortRuns(SubSeq(runs, 1, Len(runs) - 1)), runs[Len(runs)])

\* The runs of the response of /api/results: an exception anywhere in the
\* loop is caught around the whole handler, which then answers { runs: [] }.
ApiResults(root) ==
    IF ParseThrows(root) THEN <<>> ELSE SortRuns(ReadRuns(root, 1))

\* GET /api/results
ListResults ==
    /\ listing' = Some(ApiResults(outputRoot))
    /\ UNCHANGED <<jobs, queue, runningJobIds, maxConcurrent, isRunning, loops,
                   activeJobCount, pc, result, launches, files, sseClients,
                   nextClient, delivered, events, statusLog,
                   admissions, published, unitStats,
                   progressLeft, faultsLeft, totalSubmitted, now, clients, wsLog,
                   saveAttempts, outputRoot, dashboard>>

\* The limits a caller may set: any number, zero included.
Limits == 0..MaxJobs

\* A call of queue.setMaxConcurrent(max) while the server runs.
CallSetMaxConcurrent(max) ==
    /\ Becomes(SetMaxConcurrent(World, max))
    /\ UNCHANGED <<isRunning, loops, result, files, nextClient, progressLeft,
                   faultsLeft, totalSubmitted, now,
                   saveAttempts, outputRoot, listing, dashboard>>

\* ws.onopen: the counter is reset and the run button enabled.
DashboardOpen ==
    /\ dashboard.ws = "connecting"
    /\ dashboard' = [dashboard EXCEPT !.ws = "open", !.reconnectAttempts = 0,
                                      !.runDisabled = FALSE, !.connects = 0]
    /\ UNCHANGED <<jobs, queue, runningJobIds, maxConcurrent, isRunning, loops,
                   activeJobCount, pc, result, launches, files, sseClients,
                   nextClient, delivered, events, statusLog, admissions,
                   published, unitStats, progressLeft, faultsLeft,
                   totalSubmitted, now, clients, wsLog, saveAttempts,
                   outputRoot, listing>>

\* ws.onclose, after a connection that failed or an open one that ended:
\* updateConnectionStatus(false) and attemptReconnect().
DashboardClose ==
    /\ dashboard.ws \in {"connecting", "open"}
    /\ dashboard' = AttemptReconnect([dashboard EXCEPT !.ws = "closed",
                                                       !.runDisabled = TRUE])
    /\ UNCHANGED <<jobs, queue, runningJobIds, maxConcurrent, isRunning, loops,
                   activeJobCount, pc, result, launches, files, sseClients,
                   nextClient, delivered, events, statusLog, admissions,
                   published, unitStats, progressLeft, faultsLeft,
                   totalSubmitted, now, clients, wsLog, saveAttempts,
                   outputRoot, listing>>

\* The timer of attemptReconnect fires: connect() creates a new socket.
DashboardReconnect ==
    /\ dashboard.reconnectTimer
    /\ dashboard' = [dashboard EXCEPT !.reconnectTimer = FALSE,
                                      !.ws = "connecting",
                                      !.connects = @ + 1]
    /\ UNCHANGED <<jobs, queue, runningJobIds, maxConcurrent, isRunning, loops,
                   activeJobCount, pc, result, launches, files, sseClients,
                   nextClient, delivered, events, statusLog, admissions,
                   published, unitStats, progressLeft, faultsLeft,
                   totalSubmitted, now, clients, wsLog, saveAttempts,
                   outputRoot, listing>>

\* handleRunTests: a click on the enabled run button posts the urls.
HandleRunTests(urls) ==
    /\ ~dashboard.runDisabled
    /\ Submit(urls)

\* Time passes.
Advance ==
    /\ now < MaxClock
    /\ now' = now + 1
    /\ UNCHANGED <<jobs, queue, runningJobIds, maxConcurrent, isRunning, loops,
                   activeJobCount, pc, result, launches, files, sseClients,
                   nextClient, delivered, events, statusLog,
                   admissions, published, unitStats,
                   progressLeft, faultsLeft,
                   totalSubmitted,
                   clients, wsLog, saveAttempts, outputRoot, listing, dashboard>>

\* The steps of the queue, the runner and the executors.
JobStep ==
    \/ \E urls \in Batches : Submit(urls)
    \/ Tick
    \/ \E id \in 1..MaxJobs : AgentStarts(id)
    \/ \E id \in 1..MaxJobs : MkdirFails(id)
    \/ \E id \in 1..MaxJobs, r \in Results, fsOk \in BOOLEAN : AgentReturns(id, r, fsOk)
    \/ \E id \in 1..MaxJobs, error \in ThrownValues : AgentThrows(id, error)
    \/ \E id \in 1..MaxJobs : Finish(id)

\* The queue and the runner: submissions, scheduler ticks and execution
\* units, and a runner that is stopped and started again.
Next ==
    \/ JobStep
    \/ Start
    \/ Stop

Spec == Init /\ [][Next]_vars

\* Submissions and scheduler ticks with the clock running.
NextClock ==
    \/ \E urls \in Batches : Submit(urls)
    \/ Tick
    \/ Advance

SpecClock == Init /\ [][NextClock]_vars

\* Execution units that publish progress events, and stream clients; every
\* job is for the same url and every run passes.
NextSSE ==
    \/ \E n \in 1..MaxJobs : Submit([i \in 1..n |-> Url1])
    \/ Tick
    \/ \E id \in 1..MaxJobs : AgentStarts(id)
    \/ \E id \in 1..MaxJobs, type \in ProgressTypes : Progress(id, type)
    \/ \E id \in 1..MaxJobs : AgentReturns(id, PassResult, TRUE)
    \/ \E id \in 1..MaxJobs : Finish(id)
    \/ \E jobId \in 1..MaxJobs : Connect(jobId)
    \/ \E c \in 1..MaxSSE : Disconnect(c)

SpecSSE == InitNoFaults /\ [][NextSSE]_vars

\* Dashboards on the WebSocket and stream clients whose connections may
\* break, next to execution units that pass.
NextFanout ==
    \/ \E n \in 1..MaxJobs : Submit([i \in 1..n |-> Url1])
    \/ Tick
    \/ \E id \in 1..MaxJobs : AgentStarts(id)
    \/ \E id \in 1..MaxJobs : AgentReturns(id, PassResult, TRUE)
    \/ \E id \in 1..MaxJobs : Finish(id)
    \/ \E jobId \in 1..MaxJobs : Connect(jobId)
    \/ \E c \in 1..MaxSSE : SinkCloses(c)
    \/ \E c \in 1..MaxWS : WsOpen(c)
    \/ \E c \in 1..MaxWS : WsBreaks(c)
    \/ \E c \in 1..MaxWS : WsClose(c)

SpecFanout == InitNoFaults /\ [][NextFanout]_vars

\* The queue, the runner and the executors with the clock running; every job
\* is for the same url, a run passes or agent.run rejects.
NextTimed ==
    \/ \E n \in 1..MaxJobs : Submit([i \in 1..n |-> Url1])
    \/ Tick
    \/ \E id \in 1..MaxJobs : AgentStarts(id)
    \/ \E id \in 1..MaxJobs : AgentReturns(id, PassResult, TRUE)
    \/ \E id \in 1..MaxJobs, error \in ThrownValues : AgentThrows(id, error)
    \/ \E id \in 1..MaxJobs : Finish(id)
    \/ Advance

SpecTimed == Init /\ [][NextTimed]_vars

\* The queue, the runner and execution units that pass or reject, with a
\* limit that is changed while jobs wait and run.
NextLimit ==
    \/ \E n \in 1..MaxJobs : Submit([i \in 1..n |-> Url1])
    \/ Tick
    \/ \E id \in 1..MaxJobs : AgentStarts(id)
    \/ \E id \in 1..MaxJobs : AgentReturns(id, PassResult, TRUE)
    \/ \E id \in 1..MaxJobs, error \in ThrownValues : AgentThrows(id, error)
    \/ \E id \in 1..MaxJobs : Finish(id)
    \/ \E max \in Limits : CallSetMaxConcurrent(max)

SpecLimit == Init /\ [][NextLimit]_vars

\* Execution units whose executor emits events with any payload, and stream
\* clients.
NextRelay ==
    \/ \E n \in 1..MaxJobs : Submit([i \in 1..n |-> Url1])
    \/ Tick
    \/ \E id \in 1..MaxJobs : AgentStarts(id)
    \/ \E id \in 1..MaxJobs, type \in ProgressTypes, data \in Payloads : Emit(id, type, data)
    \/ \E id \in 1..MaxJobs : AgentReturns(id, PassResult, TRUE)
    \/ \E id \in 1..MaxJobs : Finish(id)
    \/ \E jobId \in 1..MaxJobs : Connect(jobId)

SpecRelay == InitNoFaults /\ [][NextRelay]_vars

\* The queue, the runner and execution units that pass, with the clock
\* running.
NextPolling ==
    \/ \E n \in 1..MaxJobs : Submit([i \in 1..n |-> Url1])
    \/ Tick
    \/ \E id \in 1..MaxJobs : AgentStarts(id)
    \/ \E id \in 1..MaxJobs : AgentReturns(id, PassResult, TRUE)
    \/ \E id \in 1..MaxJobs : Finish(id)
    \/ Advance

SpecPolling == InitNoFaults /\ [][NextPolling]_vars

\* Execution units that publish progress events and end in any way: the
\* agent passes, returns a failing or an unserialisable result or rejects,
\* or the output directory cannot be created.
NextEvents ==
    \/ \E n \in 1..MaxJobs : Submit([i \in 1..n |-> Url1])
    \/ Tick
    \/ \E id \in 1..MaxJobs : AgentStarts(id)
    \/ \E id \in 1..MaxJobs : MkdirFails(id)
    \/ \E id \in 1..MaxJobs, type \in ProgressTypes : Progress(id, type)
    \/ \E id \in 1..MaxJobs, r \in Results : AgentReturns(id, r, TRUE)
    \/ \E id \in 1..MaxJobs, error \in ThrownValues : AgentThrows(id, error)
    \/ \E id \in 1..MaxJobs : Finish(id)

SpecEvents == Init /\ [][NextEvents]_vars

\* A runner that is stopped and started again, with execution units that
\* pass.
NextStop ==
    \/ \E n \in 1..MaxJobs : Submit([i \in 1..n |-> Url1])
    \/ Tick
    \/ Start
    \/ Stop
    \/ \E id \in 1..MaxJobs : AgentStarts(id)
    \/ \E id \in 1..MaxJobs : AgentReturns(id, PassResult, TRUE)
    \/ \E id \in 1..MaxJobs : Finish(id)

SpecStop == InitNoFaults /\ [][NextStop]_vars

\* A dashboard page whose connection opens, fails and closes, next to the
\* queue and the runner it submits jobs to.
NextDashboard ==
    \/ DashboardOpen
    \/ DashboardClose
    \/ DashboardReconnect
    \/ \E n \in 1..MaxJobs : HandleRunTests([i \in 1..n |-> Url1])
    \/ Tick
    \/ \E id \in 1..MaxJobs : AgentStarts(id)
    \/ \E id \in 1..MaxJobs : AgentReturns(id, PassResult, TRUE)
    \/ \E id \in 1..MaxJobs : Finish(id)

SpecDashboard == InitNoFaults /\ [][NextDashboard]_vars

\* Requests to /api/run with any body, and execution units that pass.
NextRun ==
    \/ \E body \in Bodies : Run(body)
    \/ Tick
    \/ \E id \in 1..MaxJobs : AgentStarts(id)
    \/ \E id \in 1..MaxJobs : AgentReturns(id, PassResult, TRUE)
    \/ \E id \in 1..MaxJobs : Finish(id)

SpecRun == InitNoFaults /\ [][NextRun]_vars

\* The listing of an output directory with any content.
InitResults == InitObjects /\ faultsLeft = 0 /\ outputRoot \in Roots

NextResults == ListResults

SpecResults == InitResults /\ [][NextResults]_vars

\* The scheduler loop never stopped, every suspended step of an execution
\* unit resumes, and every agent.run terminates (resolves or rejects).
Fairness ==
    /\ WF_vars(Tick)
    /\ \A id \in 1..MaxJobs :
          /\ WF_vars(AgentStarts(id) \/ MkdirFails(id))
          /\ WF_vars((\E r \in Results, fsOk \in BOOLEAN : AgentReturns(id, r, fsOk))
                        \/ (\E error \in ThrownValues : AgentThrows(id, error)))
          /\ WF_vars(Finish(id))

\* The stream clients and execution units of SpecSSE under the fairness of
\* the scheduler and the executors; no client is obliged to go away.
SpecStream == InitNoFaults /\ [][NextSSE]_vars /\ Fairness

\* The steps of the liveness specification: those of JobStep, with every
\* submitted url the same one (the url only decides the output directory)
\* and a file system that takes every record (saveMetadata swallows a failed
\* write).
NextLive ==
    \/ \E n \in 1..MaxJobs : Submit([i \in 1..n |-> Url1])
    \/ Tick
    \/ \E id \in 1..MaxJobs : AgentStarts(id)
    \/ \E id \in 1..MaxJobs : MkdirFails(id)
    \/ \E id \in 1..MaxJobs, r \in Results : AgentReturns(id, r, TRUE)
    \/ \E id \in 1..MaxJobs, error \in ThrownValues : AgentThrows(id, error)
    \/ \E id \in 1..MaxJobs : Finish(id)

SpecLive == Init /\ [][NextLive]_vars /\ Fairness

---------------------------------------------------------------------------
\* Properties.

RunningJobs == {id \in JobIds : jobs[id].status = "running"}

Terminal == {"completed", "failed"}

CountOf(seq, x) == Cardinality({i \in DOMAIN seq : seq[i] = x})

\* C1: the number of jobs whose status is running never exceeds the
\* configured limit, whichever loops poll and however submissions, ticks and
\* terminations interleave; so no two admissions share the last free slot.
C1_ConcurrencyCap == Cardinality(RunningJobs) <= maxConcurrent

\* Two polling loops are alive, every slot is taken and a job still waits.
C1_Witness ==
    /\ loops = 2
    /\ Cardinality(RunningJobs) = maxConcurrent
    /\ Len(queue) > 0

\* C2: any two distinct jobs have different outputDir values.
C2_OutputDirsDistinct ==
    \A i \in JobIds, j \in JobIds : i # j => jobs[i].outputDir # jobs[j].outputDir

\* C3: every job addJobs created eventually has status completed or failed.
C3_EveryJobTerminates ==
    \A id \in 1..MaxJobs :
        (id \in JobIds) ~> (id \in JobIds /\ jobs[id].status \in Terminal)

\* Every job has terminated although the limit let only one run at a time.
C3_Witness ==
    /\ Len(jobs) = MaxJobs
    /\ maxConcurrent = 1
    /\ \A id \in JobIds : jobs[id].status \in Terminal

\* C4: runJob (and with it startJob) is invoked at most once per job, and
\* exactly once for every job that has left pending; a failed job is never
\* launched again.
C4_AdmittedOnce ==
    \A id \in JobIds :
        /\ launches[id] <= 1
        /\ jobs[id].status # "pending" => launches[id] = 1

\* A job failed and a later tick of a second loop admitted the next job.
C4_Witness ==
    /\ loops = 2
    /\ \E id \in JobIds, other \in JobIds :
          /\ jobs[id].status = "failed"
          /\ launches[id] = 1
          /\ id < other
          /\ jobs[other].status = "running"
          /\ jobs[other].startedAt = jobs[id].completedAt

\* C5: the values assigned to a job's status follow pending -> running ->
\* completed or failed: every change is pending -> running, running ->
\* completed or running -> failed.
C5_StatusMonotonic ==
    \A id \in JobIds :
        \A i \in 1..(Len(statusLog[id]) - 1) :
            <<statusLog[id][i], statusLog[id][i + 1]>> \in
                {<<"pending", "running">>, <<"running", "completed">>,
                 <<"running", "failed">>}

\* C6: once a job's status has been set to completed or failed, no later
\* assignment of its execution unit changes it.
C6_TerminalImmutable ==
    \A id \in JobIds :
        \A i \in DOMAIN statusLog[id], j \in DOMAIN statusLog[id] :
            (i < j /\ statusLog[id][i] \in Terminal) =>
                statusLog[id][j] = statusLog[id][i]

\* C7: every event broadcast delivers to a stream client created with jobId
\* B carries data.jobId = B; after the acknowledgement the client holds
\* nothing for another job and nothing without a jobId.
C7_FilteredIsolation ==
    \A c \in DOMAIN sseClients :
        sseClients[c].jobId # Undefined =>
            \A i \in DOMAIN delivered[c] :
                /\ delivered[c][i].jobId = sseClients[c].jobId
                /\ delivered[c][i].type # "queue-update"

\* A client of job 1 connected before job 1 started and has received its
\* events, while job 2 published events of its own.
C7_Witness ==
    \E c \in DOMAIN sseClients :
        /\ sseClients[c].jobId = Some(1)
        /\ Len(delivered[c]) >= 3
        /\ delivered[c][2].type = "job-started"
        /\ 2 \in JobIds
        /\ Len(events[2]) >= 2

C9_FailureResultFails ==
    \A id \in JobIds :
        (pc[id] = "done" /\ result[id] = Some(FailResult)) =>
            /\ jobs[id].status = "failed"
            /\ jobs[id].error # Undefined

\* C10: the four counts of getStats add up to the number of jobs addJobs
\* has created.
C10_StatsSum ==
    LET stats == GetStats(World)
    IN stats.pending + stats.running + stats.completed + stats.failed
          = totalSubmitted

\* Every job was submitted and they are spread over several statuses.
C10_Witness ==
    /\ totalSubmitted = MaxJobs
    /\ GetStats(World).completed >= 1
    /\ GetStats(World).failed >= 1

\* The types of the events a stream client holds after its acknowledgement.
StreamTypes(log) == [i \in 1..(Len(log) - 1) |-> log[i + 1].type]

\* s can be obtained from t by leaving elements out.
RECURSIVE IsSubseq(_, _)
IsSubseq(s, t) ==
    IF s = <<>> THEN TRUE
    ELSE IF t = <<>> THEN FALSE
    ELSE IF Head(s) = Head(t) THEN IsSubseq(Tail(s), Tail(t))
    ELSE IsSubseq(s, Tail(t))

\* C11: a subscriber whose sink threw during a broadcast is no longer in the
\* registry after it: a WebSocket client whose send threw is not in clients,
\* and a stream client with a dead controller that an event of its job was
\* published to is not in sseClients.
C11_FailedSubscriberRemoved ==
    [][/\ \A c \in DOMAIN clients :
              c \in DOMAIN clients' => wsLog'[c].failures = wsLog[c].failures
       /\ \A c \in DOMAIN sseClients :
              (/\ SendThrows(sseClients[c])
               /\ \E id \in JobIds :
                     /\ sseClients[c].jobId = Some(id)
                     /\ events'[id] # events[id])
                 => c \notin DOMAIN sseClients']_vars

\* C12: in every step, every subscriber with a working sink that stays
\* registered is sent each event published for a job its filter lets through
\* (as many new events of the job as the step published), whatever happened
\* to the other subscribers, and no publisher sees an exception: with
\* executors that all pass, no job becomes failed.
C12_FailureIsolated ==
    [][/\ \A c \in DOMAIN clients, id \in JobIds :
              (clients[c] = "open" /\ c \in DOMAIN clients') =>
                  Len(wsLog'[c].sent[id]) - Len(wsLog[c].sent[id])
                      = Len(events'[id]) - Len(events[id])
       /\ \A c \in DOMAIN sseClients, id \in JobIds :
              (/\ sseClients[c].controller = "open"
               /\ sseClients[c].jobId = Some(id)
               /\ c \in DOMAIN sseClients') =>
                  Len(delivered'[c]) - Len(delivered[c])
                      = Len(events'[id]) - Len(events[id])
       /\ \A id \in DOMAIN jobs' : jobs'[id].status # "failed"]_vars

\* A dashboard got job 1's job-started and then broke; the send of the next
\* event to it threw, and the stream client of job 1 received that event.
C12_Witness ==
    \E c \in DOMAIN clients, d \in DOMAIN sseClients :
        /\ clients[c] = "broken"
        /\ wsLog[c].failures >= 1
        /\ wsLog[c].sent[1] = <<"job-started">>
        /\ sseClients[d].jobId = Some(1)
        /\ StreamTypes(delivered[d]) = <<"job-started", "log">>

\* C19: what a subscriber was sent of a job is in the order in which the
\* job's events were published, for dashboards and for stream clients.
C19_PerJobOrder ==
    /\ \A c \in DOMAIN clients, id \in JobIds :
           IsSubseq(wsLog[c].sent[id], events[id])
    /\ \A c \in DOMAIN sseClients, id \in JobIds :
           sseClients[c].jobId = Some(id) =>
               IsSubseq(StreamTypes(delivered[c]), events[id])

\* Two jobs run at the same time and a dashboard was sent events of both.
C19_Witness ==
    /\ Len(jobs) >= 2
    /\ pc[1] = "agent" /\ pc[2] = "agent"
    /\ \E c \in DOMAIN clients :
          /\ wsLog[c].sent[1] = <<"job-started", "log">>
          /\ wsLog[c].sent[2] = <<"job-started", "log">>

\* C13: a request to /api/run that is answered with a rejection (no array, an
\* empty array, or an array with a malformed url) has created no job: the
\* jobs, the pending queue and the counts of getStats are as before.
C13_RejectedSubmitChangesNothing ==
    [][\A body \in Bodies :
          (Run(body) /\ RunRejects(body)) =>
              /\ jobs' = jobs
              /\ queue' = queue
              /\ \A st \in {"pending", "running", "completed", "failed"} :
                    CountStatus(jobs', st) = CountStatus(jobs, st)]_vars

\* C14: for every job whose status is completed or failed, saveMetadata was
\* called: a write of its metadata record was attempted.
C14_TerminalJobPersisted ==
    \A id \in JobIds :
        jobs[id].status \in Terminal => \E a \in saveAttempts : a.job = id

\* C15: a job whose agent.run resolved with a passing result and whose
\* metadata record could not be written ends completed, with its slot
\* released and one job-completed event published.
C15_PersistFailureKeepsCompleted ==
    \A a \in saveAttempts :
        (/\ ~a.written
         /\ pc[a.job] = "done"
         /\ result[a.job][1].status = "pass") =>
            /\ jobs[a.job].status = "completed"
            /\ a.job \notin runningJobIds
            /\ CountOf(events[a.job], "job-completed") = 1

\* C16: the runs /api/results answers with are the records of exactly the
\* directories of the output root that hold a valid record, whatever else
\* the root holds.
C16_ListingKeepsValidRecords ==
    listing # Undefined =>
        {listing[1][i].folder : i \in DOMAIN listing[1]}
            = {i \in DOMAIN outputRoot : outputRoot[i].kind = "valid"}

\* C17: once the job of a stream client has status completed or failed, the
\* client eventually leaves the registry: the server ends the stream.
C17_StreamEndsAtTermination ==
    \A c \in 1..MaxSSE, id \in 1..MaxJobs :
        (/\ c \in DOMAIN sseClients
         /\ sseClients[c].jobId = Some(id)
         /\ jobs[id].status \in Terminal)
            ~> (c \notin DOMAIN sseClients)

\* C18: the first event a stream client holds is 'connected' with the jobId
\* of the client, and it is the only 'connected' event: every job event comes
\* after it.
C18_ConnectedFirst ==
    \A c \in DOMAIN sseClients :
        /\ Len(delivered[c]) >= 1
        /\ delivered[c][1] = [type |-> "connected", jobId |-> sseClients[c].jobId]
        /\ \A i \in 2..Len(delivered[c]) : delivered[c][i].type # "connected"

\* A client connected while its job was running and has since received the
\* rest of the job's events.
C18_Witness ==
    \E c \in DOMAIN sseClients :
        /\ Len(delivered[c]) >= 3
        /\ delivered[c][2].type \in ProgressTypes
        /\ delivered[c][Len(delivered[c])].type = "job-completed"

\* The ids of the pending jobs, in the order of their submission.
PendingInOrder ==
    SelectSeq([i \in 1..Len(jobs) |-> i], LAMBDA id : jobs[id].status = "pending")

\* C20: in every state getNextJobs returns the first min(maxConcurrent -
\* runningCount, pendingCount) pending jobs in submission order, nothing when
\* no slot is free, and every job it returns has status pending.  (It is a
\* function of the queue, the running set and the limit, and yields only the
\* list: the slice of the code copies, it changes no field.)
C20_GetNextJobs ==
    LET next == GetNextJobs(World)
        free == maxConcurrent - Cardinality(runningJobIds)
        count == Min(IF free > 0 THEN free ELSE 0, Len(PendingInOrder))
    IN /\ next = SubSeq(PendingInOrder, 1, count)
       /\ \A i \in DOMAIN next : jobs[next[i]].status = "pending"
       /\ Cardinality(runningJobIds) >= maxConcurrent => next = <<>>

\* More jobs wait than slots are free: getNextJobs returns a proper,
\* non-empty prefix of the pending jobs.
C20_Witness ==
    /\ Len(PendingInOrder) > Len(GetNextJobs(World))
    /\ Len(GetNextJobs(World)) >= 1

\* C21: getHistory returns exactly the jobs whose status is completed or
\* failed, each once, ordered by completedAt from the most recent to the
\* oldest.
C21_HistoryOrdered ==
    LET history == GetHistory(World)
    IN /\ {history[i] : i \in DOMAIN history} =
              {id \in JobIds : jobs[id].status \in Terminal}
       /\ Len(history) = Cardinality({id \in JobIds : jobs[id].status \in Terminal})
       /\ \A i \in 1..(Len(history) - 1) :
              jobs[history[i]].completedAt[1] >= jobs[history[i + 1]].completedAt[1]

\* The job submitted last terminated after an earlier one: the history is
\* not in the order of submission.
C21_Witness ==
    \E i \in JobIds, j \in JobIds :
        /\ i < j
        /\ jobs[i].status = "completed"
        /\ jobs[j].status = "failed"
        /\ jobs[j].completedAt[1] > jobs[i].completedAt[1]
        /\ GetHistory(World) = <<j, i>>

\* C22: a step that changes the limit changes nothing else of the queue (no
\* job, not the queue, not the running set), also when the new limit is
\* below the number of running jobs; and a step that admits a pending job
\* leaves no more jobs running than the limit allows, so that after a
\* lowering nothing is admitted until the running count is below the limit.
C22_LimitOnly ==
    [][/\ maxConcurrent' # maxConcurrent =>
              /\ jobs' = jobs
              /\ queue' = queue
              /\ runningJobIds' = runningJobIds
              /\ pc' = pc
       /\ (\E id \in JobIds : jobs[id].status = "pending" /\ jobs'[id].status # "pending")
              => /\ Cardinality(runningJobIds) < maxConcurrent
                 /\ Cardinality(runningJobIds') <= maxConcurrent]_vars

\* The limit was lowered below the number of running jobs while a job waits.
C22_Witness ==
    /\ Cardinality(runningJobIds) > maxConcurrent
    /\ Cardinality(RunningJobs) = Cardinality(runningJobIds)
    /\ Len(queue) > 0

\* C23: a transition requested on a job that is not in the expected prior
\* state changes nothing: startJob on a job that is not pending, completeJob
\* or failJob on a job that is not running, leave the jobs, the queue and the
\* running set as they are.
C23_OutOfOrderIsNoOp ==
    \A id \in JobIds :
        LET started == StartJob(World, id, now)
            completed == CompleteJob(World, id, ResultMetadata(PassResult), now)
            failed == FailJob(World, id, ErrorMsg(MkdirError), now)
        IN /\ jobs[id].status # "pending" =>
                  /\ started.jobs = jobs
                  /\ started.queue = queue
                  /\ started.running = runningJobIds
           /\ jobs[id].status # "running" =>
                  /\ completed.jobs = jobs
                  /\ completed.queue = queue
                  /\ completed.running = runningJobIds
                  /\ failed.jobs = jobs
                  /\ failed.queue = queue
                  /\ failed.running = runningJobIds

\* C24: pending jobs are admitted in submission order: a job is never
\* admitted while a job submitted before it is still pending, and startJob
\* is called for the earlier job strictly before it is called for the later
\* one, within one tick and across ticks.
C24_FifoAdmission ==
    /\ \A a \in JobIds, b \in JobIds :
          (a < b /\ jobs[a].status = "pending") => jobs[b].status = "pending"
    /\ \A i \in DOMAIN admissions, j \in DOMAIN admissions :
          i < j => admissions[i] < admissions[j]
    /\ {admissions[i] : i \in DOMAIN admissions} =
          {id \in JobIds : jobs[id].status # "pending"}

\* Two jobs were admitted by the same tick, the earlier one first.
C24_Witness ==
    /\ admissions = <<1, 2>>
    /\ jobs[1].status = "running" /\ pc[1] = "mkdir"
    /\ jobs[2].status = "running" /\ pc[2] = "mkdir"
    /\ activeJobCount = 2

\* C25: a step in which the execution unit of one job ends in its catch
\* block (ensureOutputDir, agent.run or the handling of the result threw)
\* changes no other job and no other execution unit, and leaves the
\* scheduler loops alive and running: the siblings stay running and the
\* pending jobs stay in the queue for the following ticks.
C25_FailureIsolation ==
    [][\A id \in JobIds :
          (pc[id] # "done" /\ pc'[id] = "done" /\ jobs'[id].status = "failed") =>
              /\ \A other \in JobIds \ {id} :
                    /\ jobs'[other] = jobs[other]
                    /\ pc'[other] = pc[other]
                    /\ statusLog'[other] = statusLog[other]
              /\ runningJobIds' = runningJobIds \ {id}
              /\ queue' = queue
              /\ loops' = loops
              /\ isRunning' = isRunning]_vars

\* The first job failed while the limit was one, and a later tick admitted
\* the job that waited behind it.
C25_Witness ==
    /\ maxConcurrent = 1
    /\ Len(jobs) = 2
    /\ jobs[1].status = "failed" /\ pc[1] = "done"
    /\ jobs[2].status = "running" /\ pc[2] = "agent"
    /\ admissions = <<1, 2>>

\* C26: each lifecycle timestamp of a job is assigned exactly once and never
\* overwritten: createdAt by addJobs, startedAt by the one assignment of
\* running, completedAt by the one assignment of a terminal status.  (Every
\* assignment to status but the first is made together with the assignment
\* of its timestamp: startJob sets startedAt, completeJob and failJob set
\* completedAt.)
C26_TimestampsAssignedOnce ==
    \A id \in JobIds :
        LET startedAtWrites == CountOf(statusLog[id], "running")
            completedAtWrites == CountOf(statusLog[id], "completed")
                                    + CountOf(statusLog[id], "failed")
        IN /\ CountOf(statusLog[id], "pending") = 1
           /\ startedAtWrites = (IF jobs[id].startedAt = Undefined THEN 0 ELSE 1)
           /\ completedAtWrites = (IF jobs[id].completedAt = Undefined THEN 0 ELSE 1)

\* C27: a failed job has an error message; a completed job has its result
\* summary (duration, actionCount, screenshotCount); no job has both, and a
\* pending or running job has neither.
C27_ErrorXorSummary ==
    \A id \in JobIds :
        LET hasError == jobs[id].error # Undefined
            hasSummary == /\ jobs[id].duration # Undefined
                          /\ jobs[id].actionCount # Undefined
                          /\ jobs[id].screenshotCount # Undefined
            anySummary == \/ jobs[id].duration # Undefined
                          \/ jobs[id].actionCount # Undefined
                          \/ jobs[id].screenshotCount # Undefined
        IN /\ jobs[id].status = "failed" => hasError /\ ~anySummary
           /\ jobs[id].status = "completed" => hasSummary /\ ~hasError
           /\ jobs[id].status \in {"pending", "running"} => ~hasError /\ ~anySummary

\* C28: every message published with a type other than queue-update carries
\* data.jobId equal to the id of the job whose execution unit published it,
\* whatever the payload of the executor's event contains; a queue-update
\* message carries no jobId.
C28_TaggedWithPublisher ==
    \A m \in published :
        IF m.type = "queue-update" THEN m.jobId = Undefined
        ELSE m.jobId = m.job

\* C29: the scheduler loop never waits for a job: whatever the jobs in
\* flight do, a tick that admits is possible whenever a job is pending and
\* the running count is below the limit, and such a tick admits pending jobs
\* while every job in flight stays as it is, none of them having terminated.
C29_LoopNeverWaits ==
    /\ []((loops > 0 /\ isRunning /\ CanStartMoreJobs(World)) => ENABLED <<Tick>>_vars)
    /\ [][(isRunning /\ CanStartMoreJobs(World) /\ Tick) =>
              /\ Len(queue') < Len(queue)
              /\ activeJobCount' > activeJobCount
              /\ \E id \in JobIds :
                    jobs[id].status = "pending" /\ jobs'[id].status = "running"
              /\ \A id \in JobIds :
                    jobs[id].status = "running" =>
                        jobs'[id] = jobs[id] /\ pc'[id] = pc[id]]_vars

\* A job submitted after the first one had been admitted is running while
\* the first one is still in flight.
C29_Witness ==
    /\ Len(jobs) = 2
    /\ jobs[1].status = "running" /\ pc[1] \in {"mkdir", "agent", "saved"}
    /\ jobs[2].status = "running"
    /\ jobs[2].createdAt > jobs[1].startedAt[1]
    /\ activeJobCount = 2

\* C30: a tick of the running scheduler that finds k free slots and p
\* pending jobs leaves exactly the min(k, p) earliest pending jobs running;
\* in no step is a job admitted outside those, so the other pending jobs
\* wait until a running job has terminated.
C30_TickAdmitsMin ==
    [][LET free == maxConcurrent - Cardinality(runningJobIds)
           k == IF free > 0 THEN free ELSE 0
           p == Len(PendingInOrder)
           earliest == {PendingInOrder[i] : i \in 1..Min(k, p)}
           admitted == {id \in JobIds :
                           jobs[id].status = "pending" /\ jobs'[id].status # "pending"}
       IN /\ (Tick /\ isRunning) =>
                 /\ admitted = earliest
                 /\ \A id \in admitted : jobs'[id].status = "running"
                 /\ Cardinality(runningJobIds') = Cardinality(runningJobIds) + Min(k, p)
          /\ admitted \subseteq earliest]_vars

\* The limit is one: a tick admitted the first of two jobs and the second
\* waits for it.
C30_Witness ==
    /\ maxConcurrent = 1
    /\ Len(jobs) = 2
    /\ jobs[1].status = "running"
    /\ jobs[2].status = "pending"
    /\ jobs[2].createdAt = jobs[1].createdAt
    /\ admissions = <<1>>
    /\ queue = <<2>>

TerminalEvents == {"job-completed", "job-failed"}

\* C31: the events a job's execution unit publishes are one job-started,
\* published in the step that marks the job running, then progress events
\* (log, screenshot, action), then one terminal event (job-completed or
\* job-failed) that ends the unit; no progress event comes before the
\* job-started or after the terminal event; and the step that publishes the
\* terminal event publishes one queue-update whose counts are those of the
\* queue with the job in its terminal status.
C31_EventOrder ==
    /\ [](\A id \in JobIds :
            LET e == events[id]
            IN /\ (jobs[id].status = "pending") <=> (e = <<>>)
               /\ e # <<>> => e[1] = "job-started"
               /\ \A i \in 2..Len(e) :
                     \/ e[i] \in ProgressTypes
                     \/ e[i] \in TerminalEvents /\ i = Len(e)
               /\ (pc[id] = "done") <=> (e # <<>> /\ e[Len(e)] \in TerminalEvents)
               /\ pc[id] = "done" =>
                     /\ e[Len(e)] = "job-completed" => jobs[id].status = "completed"
                     /\ e[Len(e)] = "job-failed" => jobs[id].status = "failed"
               /\ unitStats.sent[id] = (IF pc[id] = "done" THEN 1 ELSE 0))
    /\ [][\A id \in JobIds :
             (pc[id] # "done" /\ pc'[id] = "done") =>
                 /\ unitStats'.last = Some(GetStats([jobs |-> jobs']))
                 /\ jobs'[id].status \in Terminal
                 /\ jobs[id].status = "running"]_vars

\* One job has published the whole sequence with progress events before its
\* job-completed, another went from job-started straight to job-failed.
C31_Witness ==
    \E a \in JobIds, b \in JobIds :
        /\ Len(events[a]) >= 4
        /\ events[a][Len(events[a])] = "job-completed"
        /\ events[a][3] \in ProgressTypes
        /\ events[b] = <<"job-started", "job-failed">>
        /\ unitStats.last # Undefined
        /\ unitStats.last[1].failed = 1

\* C32: the metadata record of a job is written only after the job's slot
\* has been released and its status set to completed or failed: in the step
\* in which saveMetadata runs the job is no longer running.
C32_PersistAfterRelease ==
    [][\A a \in saveAttempts' \ saveAttempts :
          /\ jobs[a.job].status \in Terminal
          /\ a.job \notin runningJobIds]_vars

\* C33: when a publish of a job's execution unit throws (the job-completed
\* message cannot be serialised), the step still releases the job's slot and
\* leaves the job in a terminal status, and it changes no other job, not the
\* queue and not the scheduler: the other jobs can be admitted and finish.
C33_PublishThrowReleasesSlot ==
    [][\A id \in JobIds :
          (pc[id] = "saved" /\ pc'[id] = "done" /\ ~result[id][1].serialisable) =>
              /\ id \notin runningJobIds'
              /\ jobs'[id].status \in Terminal
              /\ activeJobCount' = activeJobCount - 1
              /\ \A other \in JobIds \ {id} :
                    jobs'[other] = jobs[other] /\ pc'[other] = pc[other]
              /\ runningJobIds' = runningJobIds \ {id}
              /\ queue' = queue
              /\ loops' = loops
              /\ isRunning' = isRunning]_vars

\* The job-completed publish of the first job threw; the job that waited for
\* its slot was admitted afterwards and has completed.
C33_Witness ==
    /\ maxConcurrent = 1
    /\ Len(jobs) = 2
    /\ result[1] = Some(CyclicResult) /\ pc[1] = "done"
    /\ 1 \notin runningJobIds
    /\ jobs[2].status = "completed" /\ pc[2] = "done"
    /\ events[2][Len(events[2])] = "job-completed"

\* C34: a client that opens the filtered stream of a job it has submitted
\* eventually receives the job-completed or job-failed event of that job,
\* whenever it opens the stream, as long as it stays connected.
C34_StreamGetsTerminalEvent ==
    \A c \in 1..MaxSSE :
        (c \in DOMAIN sseClients)
            ~> (\/ c \notin DOMAIN sseClients
                \/ \E i \in DOMAIN delivered[c] :
                      delivered[c][i].type \in TerminalEvents)

\* C35: from stop() on and as long as start() has not been called again, no
\* step admits a pending job, while the execution unit of every job in
\* flight can go on through each of its steps, and the step that ends it
\* releases the slot, sets the terminal status and publishes the terminal
\* event.
C35_StopAdmitsNothing ==
    /\ [][~isRunning' =>
             \A id \in JobIds :
                 jobs[id].status = "pending" => jobs'[id].status = "pending"]_vars
    /\ [](~isRunning =>
             \A id \in JobIds :
                 /\ pc[id] = "mkdir" => ENABLED AgentStarts(id)
                 /\ pc[id] = "agent" => ENABLED AgentReturns(id, PassResult, TRUE)
                 /\ pc[id] = "saved" => ENABLED Finish(id))
    /\ [][\A id \in JobIds :
             (~isRunning /\ pc[id] = "saved" /\ pc'[id] = "done") =>
                 /\ id \notin runningJobIds'
                 /\ jobs'[id].status \in Terminal
                 /\ events'[id][Len(events'[id])] \in TerminalEvents]_vars

\* The runner is stopped and its loop has ended: a job has terminated and
\* published its terminal event, another one waits although a slot is free.
C35_Witness ==
    /\ ~isRunning
    /\ loops = 0
    /\ Len(jobs) = 2
    /\ jobs[1].status = "completed"
    /\ events[1][Len(events[1])] = "job-completed"
    /\ jobs[2].status = "pending"
    /\ runningJobIds = {}

\* C36: whatever the sequence of start() and stop() calls, at most one
\* polling loop of the runner is alive at any time.
C36_SingleLoop == loops <= 1

\* C37: in every state the running set holds exactly the ids of the jobs
\* whose status is running, so that getNextJobs and canStartMoreJobs compute
\* the free slots from the true number of running jobs.
C37_RunningSetExact ==
    /\ runningJobIds = RunningJobs
    /\ CanStartMoreJobs(World) <=>
          (Cardinality(RunningJobs) < maxConcurrent /\ Len(PendingInOrder) > 0)

\* One job has failed and left the running set, one is running, one slot of
\* two is free.
C37_Witness ==
    /\ maxConcurrent = 2
    /\ \E a \in JobIds, b \in JobIds :
          /\ jobs[a].status = "failed"
          /\ jobs[b].status = "running"
          /\ runningJobIds = {b}

\* C38: in every state the queue lists exactly the ids of the pending jobs,
\* each once, in submission order; the id of a running, completed or failed
\* job is not in it.
C38_QueueIsPending ==
    /\ queue = PendingInOrder
    /\ \A i \in DOMAIN queue :
          /\ queue[i] \in JobIds
          /\ jobs[queue[i]].status = "pending"
    /\ \A i \in DOMAIN queue, j \in DOMAIN queue : i < j => queue[i] < queue[j]

\* The runner is stopped with a job in flight: the jobs submitted since wait
\* in the queue in the order of their submission.
C38_Witness ==
    /\ Len(jobs) = MaxJobs
    /\ queue = [i \in 1..(MaxJobs - 1) |-> i + 1]
    /\ ~isRunning
    /\ jobs[1].status = "running"
    /\ \A id \in 2..MaxJobs : jobs[id].status = "pending"

\* C39: the reconnection of the dashboard is bounded: a close schedules a
\* reconnect only while the counter is below maxReconnectAttempts, and then
\* raises it by one; every successful open resets the counter to 0; connect()
\* is called at most maxReconnectAttempts times in a row after the attempt
\* that first failed or the open that ended, and once that many reconnects
\* in a row have failed the page never connects again.
C39_ReconnectBounded ==
    /\ [](/\ dashboard.reconnectAttempts <= maxReconnectAttempts
          /\ dashboard.connects <= maxReconnectAttempts + 1
          /\ (dashboard.ws = "closed" /\ ~dashboard.reconnectTimer) =>
                dashboard.reconnectAttempts = maxReconnectAttempts)
    /\ [][/\ (dashboard'.reconnectTimer /\ ~dashboard.reconnectTimer) =>
                /\ dashboard.reconnectAttempts < maxReconnectAttempts
                /\ dashboard'.reconnectAttempts = dashboard.reconnectAttempts + 1
          /\ (dashboard'.ws = "open" /\ dashboard.ws # "open") =>
                dashboard'.reconnectAttempts = 0
          /\ (dashboard.ws = "closed" /\ ~dashboard.reconnectTimer) =>
                dashboard' = dashboard]_vars

\* The page was connected and submitted a job; its connection ended and
\* maxReconnectAttempts reconnects in a row failed: it has given up.
C39_Witness ==
    /\ dashboard.ws = "closed"
    /\ ~dashboard.reconnectTimer
    /\ dashboard.reconnectAttempts = maxReconnectAttempts
    /\ dashboard.connects = maxReconnectAttempts
    /\ Len(jobs) >= 1

====
